---------------------------- MODULE Spec2Model ----------------------------
(***************************************************************************)
(* A model of the candl wiki store (src/server/wiki.go): pages are loaded  *)
(* from a directory of markdown files, wikilinks are extracted, backlinks  *)
(* are built, and pages are reloaded, written and renamed under the        *)
(* store's RWMutex.                                                        *)
(*                                                                         *)
(* Text is modelled at the level of characters: a string is a sequence of  *)
(* one-character strings, so that the link regexp, TrimSpace, the title    *)
(* rule and the backlink comparator are computed as the code computes them.*)
(***************************************************************************)
EXTENDS Integers, Sequences, FiniteSets, TLC

(***************************************************************************)
(* Strings                                                                 *)
(***************************************************************************)

\* The byte value of a character (Go compares strings bytewise).
Byte(c) ==
  CASE c = "\n" -> 10 [] c = " " -> 32 [] c = "#" -> 35 [] c = "(" -> 40
    [] c = ")" -> 41 [] c = "+" -> 43 [] c = "-" -> 45 [] c = "/" -> 47
    [] c = "0" -> 48 [] c = "1" -> 49 [] c = "2" -> 50 [] c = "3" -> 51
    [] c = "4" -> 52 [] c = "5" -> 53 [] c = "9" -> 57
    [] c = "S" -> 83 [] c = "[" -> 91 [] c = "]" -> 93 [] c = "_" -> 95
    [] c = "a" -> 97 [] c = "b" -> 98 [] c = "c" -> 99 [] c = "d" -> 100
    [] c = "e" -> 101 [] c = "h" -> 104 [] c = "l" -> 108 [] c = "n" -> 110
    [] c = "p" -> 112 [] c = "r" -> 114 [] c = "s" -> 115 [] c = "x" -> 120
    [] c = "y" -> 121 [] c = "|" -> 124

\* unicode.IsDigit(rune(b)) for a byte b: the ASCII digits.
InRange(x, lo, hi) == lo <= x /\ x <= hi

IsDigit(c) == InRange(Byte(c), 48, 57)

\* unicode.IsSpace on the characters of the model.
IsSpace(c) == c \in {" ", "\n"}

\* s[i..j] (1-based, inclusive); empty when j < i.
Sub(s, i, j) == IF j < i THEN <<>> ELSE SubSeq(s, i, j)

\* strings.TrimSpace
RECURSIVE TrimLeft(_)
TrimLeft(s) ==
  IF s # <<>> /\ IsSpace(Head(s)) THEN TrimLeft(Tail(s)) ELSE s

RECURSIVE TrimRight(_)
TrimRight(s) ==
  IF s # <<>> /\ IsSpace(s[Len(s)]) THEN TrimRight(Sub(s, 1, Len(s) - 1)) ELSE s

TrimSpace(s) == TrimRight(TrimLeft(s))

\* strings.HasPrefix
HasPrefix(s, p) == Len(s) >= Len(p) /\ Sub(s, 1, Len(p)) = p

\* strings.Index(s, c) for a one-character c, 0-based; -1 when absent.
Index(s, c) ==
  IF \E i \in 1..Len(s) : s[i] = c
  THEN (CHOOSE i \in 1..Len(s) : s[i] = c /\ \A j \in 1..(i - 1) : s[j] # c) - 1
  ELSE -1

\* a < b on Go strings: bytewise lexicographic order. x and y are the
\* first bytes of a and b.
RECURSIVE StrLess(_, _)
ByteLess(x, y, a, b) ==
  IF x < y THEN TRUE
  ELSE IF x > y THEN FALSE
  ELSE StrLess(Tail(a), Tail(b))

StrLess(a, b) ==
  IF b = <<>> THEN FALSE
  ELSE IF a = <<>> THEN TRUE
  ELSE ByteLess(Byte(Head(a)), Byte(Head(b)), a, b)

\* isValidName: regexp.MatchString("^[a-zA-Z0-9_+-]+$", name)
NameByte(x, c) ==
  InRange(x, 48, 57) \/ InRange(x, 65, 90) \/ InRange(x, 97, 122)
    \/ c \in {"_", "+", "-"}

isValidName(name) ==
  Len(name) > 0 /\ \A i \in 1..Len(name) : NameByte(Byte(name[i]), name[i])

(***************************************************************************)
(* linkRe: \[\[([^\]|]+)(?:\|([^\]]+))?\]\]                                *)
(***************************************************************************)

\* The length of the longest run of characters outside stop, from s[i].
RECURSIVE RunLen(_, _, _)
RunLen(s, i, stop) ==
  IF i > Len(s) \/ s[i] \in stop THEN 0 ELSE 1 + RunLen(s, i + 1, stop)

NoMatch == [ok |-> FALSE, last |-> 0, target |-> <<>>, label |-> <<>>]

\* The match of linkRe that starts at s[i], if there is one: both groups are
\* greedy runs of a negated class, so the match at a position is unique.
\* last is the index of the closing bracket; label is empty when the
\* optional group did not take part.
MatchAt(s, i) ==
  IF i + 1 > Len(s) \/ s[i] # "[" \/ s[i + 1] # "[" THEN NoMatch
  ELSE LET n1 == RunLen(s, i + 2, {"]", "|"})
           j  == i + 2 + n1
       IN IF n1 = 0 THEN NoMatch
          ELSE IF j <= Len(s) /\ s[j] = "|"
          THEN LET n2 == RunLen(s, j + 1, {"]"})
                   k  == j + 1 + n2
               IN IF n2 > 0 /\ k + 1 <= Len(s) /\ s[k] = "]" /\ s[k + 1] = "]"
                  THEN [ok |-> TRUE, last |-> k + 1,
                        target |-> Sub(s, i + 2, j - 1),
                        label |-> Sub(s, j + 1, k - 1)]
                  ELSE NoMatch
          ELSE IF j + 1 <= Len(s) /\ s[j] = "]" /\ s[j + 1] = "]"
          THEN [ok |-> TRUE, last |-> j + 1,
                target |-> Sub(s, i + 2, j - 1), label |-> <<>>]
          ELSE NoMatch


\* linkRe.FindStringSubmatch(m): the leftmost match in m.
RECURSIVE FindFrom(_, _)
FirstMatch(m, s, i) == IF m.ok THEN m ELSE FindFrom(s, i + 1)

FindFrom(s, i) ==
  IF i > Len(s) THEN NoMatch ELSE FirstMatch(MatchAt(s, i), s, i)

FindStringSubmatch(m) == FindFrom(m, 1)

(***************************************************************************)
(* renameWikilinks                                                         *)
(***************************************************************************)

\* A variant of RenameSub that writes the new link without the label.
RenameSubNoLabel(m, sub, oldName, newName) ==
  IF TrimSpace(sub.target) # oldName THEN m
  ELSE <<"[", "[">> \o newName \o <<"]", "]">>

\* The closure given to ReplaceAllFunc: m is one matched occurrence and sub
\* its submatches.
RenameSub(m, sub, oldName, newName) ==
  IF TrimSpace(sub.target) # oldName THEN m
  ELSE IF sub.label # <<>>
  THEN <<"[", "[">> \o newName \o <<"|">> \o sub.label \o <<"]", "]">>
  ELSE <<"[", "[">> \o newName \o <<"]", "]">>

RenameOccurrence(m, oldName, newName) ==
  RenameSub(m, FindStringSubmatch(m), oldName, newName)

\* linkRe.ReplaceAllFunc from s[i] on: leftmost non-overlapping matches
\* are replaced, everything else is copied. m is the match at s[i].
RECURSIVE RenameFrom(_, _, _, _)
RenameAt(m, s, i, oldName, newName) ==
  IF m.ok
  THEN RenameOccurrence(Sub(s, i, m.last), oldName, newName)
         \o RenameFrom(s, m.last + 1, oldName, newName)
  ELSE <<s[i]>> \o RenameFrom(s, i + 1, oldName, newName)

RenameFrom(s, i, oldName, newName) ==
  IF i > Len(s) THEN <<>>
  ELSE RenameAt(MatchAt(s, i), s, i, oldName, newName)

renameWikilinks(content, oldName, newName) ==
  RenameFrom(content, 1, oldName, newName)

(***************************************************************************)
(* loadPage                                                                *)
(***************************************************************************)

\* A variant of FormatLink that always prints the label, also when empty.
FormatLinkLabelOnly(target, label) ==
  <<"[">> \o label \o <<"]", "(">> \o target \o <<")">>

\* The closure of loadPage's ReplaceAllStringFunc: the replacement text
\* for the trimmed target and label ...
FormatLink(target, label) ==
  <<"[">> \o (IF label = <<>> THEN target ELSE label)
    \o <<"]", "(">> \o target \o <<")">>

InlineSub(sub) == FormatLink(TrimSpace(sub.target), TrimSpace(sub.label))

InlineLink(m) == InlineSub(FindStringSubmatch(m))

\* ... and its side effect, p.Links[target] = true.
LinkTarget(m) == TrimSpace(FindStringSubmatch(m).target)

\* linkRe.ReplaceAllStringFunc from s[i] on; m is the match at s[i].
RECURSIVE ProcessFrom(_, _)
ProcessAt(m, s, i) ==
  IF m.ok
  THEN InlineLink(Sub(s, i, m.last)) \o ProcessFrom(s, m.last + 1)
  ELSE <<s[i]>> \o ProcessFrom(s, i + 1)

ProcessFrom(s, i) ==
  IF i > Len(s) THEN <<>> ELSE ProcessAt(MatchAt(s, i), s, i)

\* The targets the closure adds to p.Links from s[i] on.
RECURSIVE LinksFrom(_, _)
LinksAt(m, s, i) ==
  IF m.ok
  THEN {LinkTarget(Sub(s, i, m.last))} \cup LinksFrom(s, m.last + 1)
  ELSE LinksFrom(s, i + 1)

LinksFrom(s, i) ==
  IF i > Len(s) THEN {} ELSE LinksAt(MatchAt(s, i), s, i)

\* The title rule: set only for a "# " prefix with a line break after it
\* (at 0-based index nl); the field keeps its zero value, the empty string,
\* otherwise.
TitleUpTo(raw, nl) ==
  IF HasPrefix(raw, <<"#", " ">>) /\ nl > 0
  THEN TrimSpace(Sub(raw, 3, nl))
  ELSE <<>>

PageTitle(raw) == TitleUpTo(raw, Index(raw, "\n"))

\* A *Page. isNil marks the nil pointer (the value a map lookup of a missing
\* key yields). HTML is the text handed to md.Convert: the renderer is an
\* external function of that text.
NilPage ==
  [isNil |-> TRUE, Name |-> <<>>, Raw |-> <<>>, Title |-> <<>>,
   HTML |-> <<>>, Links |-> {}, Backlinks |-> <<>>]

\* loadPage on a file of the given name whose content is raw (the read and
\* the conversion succeeded).
loadPage(name, raw) ==
  [isNil |-> FALSE, Name |-> name, Raw |-> raw, Title |-> PageTitle(raw),
   HTML |-> ProcessFrom(raw, 1), Links |-> LinksFrom(raw, 1),
   Backlinks |-> <<>>]

SearchName == <<"s", "e", "a", "r", "c", "h">>

\* The page loadPages adds when the scan found no search file.
DefaultSearch ==
  [isNil |-> FALSE, Name |-> SearchName,
   Raw |-> <<"#", " ", "S", "e", "a", "r", "c", "h">>, Title |-> <<>>,
   HTML |-> <<>>, Links |-> {}, Backlinks |-> <<>>]

(***************************************************************************)
(* sortBacklinks and buildBacklinks                                        *)
(***************************************************************************)

BeginsNum(a) == Len(a) > 0 /\ IsDigit(a[1])

\* A variant of CompareBacklinks that sorts digit-leading names upwards,
\* like the others.
CompareBacklinksAscending(aBeginsNum, bBeginsNum, less, greater) ==
  IF ~aBeginsNum /\ bBeginsNum THEN -1
  ELSE IF aBeginsNum /\ ~bBeginsNum THEN 1
  ELSE (IF less THEN -1 ELSE IF greater THEN 1 ELSE 0)

\* A variant of CompareBacklinks that answers -1 whenever exactly one of
\* the names begins with a digit.
CompareBacklinksMixed(aBeginsNum, bBeginsNum, less, greater) ==
  IF aBeginsNum # bBeginsNum THEN -1
  ELSE IF ~aBeginsNum
  THEN (IF less THEN -1 ELSE IF greater THEN 1 ELSE 0)
  ELSE (IF less THEN 1 ELSE IF greater THEN -1 ELSE 0)

\* The comparison for the locals aBeginsNum and bBeginsNum and for the
\* outcomes of a < b and a > b.
CompareBacklinks(aBeginsNum, bBeginsNum, less, greater) ==
  IF ~aBeginsNum /\ bBeginsNum THEN -1
  ELSE IF aBeginsNum /\ ~bBeginsNum THEN 1
  ELSE IF ~aBeginsNum /\ ~bBeginsNum
  THEN (IF less THEN -1 ELSE IF greater THEN 1 ELSE 0)
  ELSE (IF less THEN 1 ELSE IF greater THEN -1 ELSE 0)

sortBacklinks(a, b) ==
  CompareBacklinks(BeginsNum(a), BeginsNum(b), StrLess(a, b), StrLess(b, a))

\* slices.SortFunc as an insertion sort: x goes before the first element
\* it compares less than.
RECURSIVE InsertSorted(_, _)
InsertSorted(x, sorted) ==
  IF sorted = <<>> THEN <<x>>
  ELSE IF sortBacklinks(x, Head(sorted)) < 0 THEN <<x>> \o sorted
  ELSE <<Head(sorted)>> \o InsertSorted(x, Tail(sorted))

\* The slice built by ranging over the set of linkers, sorted.
RECURSIVE SortFunc(_)
SortFunc(linkers) ==
  IF linkers = {} THEN <<>>
  ELSE LET x == CHOOSE y \in linkers : TRUE
       IN InsertSorted(x, SortFunc(linkers \ {x}))

\* A variant of PageLinkers without the implicit link to search.
PageLinkersTextual(pages, name) ==
  {linker \in DOMAIN pages : name \in pages[linker].Links}

\* The linkers of page name: the pages whose Links hold it and, for search,
\* every page.
PageLinkers(pages, name) ==
  {linker \in DOMAIN pages : name \in pages[linker].Links}
    \cup (IF name = SearchName THEN DOMAIN pages ELSE {})

\* buildBacklinks panics before it writes anything when it ranges over a nil
\* page (p.Links) or when there is no search entry to add the linker to
\* (an assignment to an entry of a nil map).
BuildPanics(pages) ==
  /\ DOMAIN pages # {}
  /\ \/ \E k \in DOMAIN pages : pages[k].isNil
     \/ SearchName \notin DOMAIN pages

buildBacklinks(pages) ==
  [k \in DOMAIN pages |->
     [pages[k] EXCEPT !.Backlinks = SortFunc(PageLinkers(pages, k))]]

(***************************************************************************)
(* The store                                                               *)
(***************************************************************************)

VARIABLES
  disk,   \* the markdown files under w.Dir: path -> content
  Pages,  \* w.Pages: name -> *Page
  phase,  \* main: "start" before the first Update, then "serving" or "exited"
  ret,    \* the call that returned last, with its result
  ncalls, \* the calls made on the store since the first Update
  mu,     \* w.mu: the goroutine holding the write lock, and the readers
  calls,  \* per goroutine, the store call it is executing
  ld,     \* one run of loadPages: its goroutines, channels and WaitGroup
  ev,     \* one evaluation of a function of the package: input and result
  wd      \* the WatchDir goroutine: its timer, its channels and its position

vars == <<disk, Pages, phase, ret, ncalls, mu, calls, ld, ev, wd>>

\* A markdown file: the directory below w.Dir ("" is w.Dir itself) and the
\* base name without ".md".
RootDir == ""
SubDir == "sub"

\* w.getPagePath(name)
getPagePath(name) == [dir |-> RootDir, name |-> name]

\* f with key k set to v (a Go map assignment) and with key k deleted.
MapSet(f, k, v) == [x \in DOMAIN f \cup {k} |-> IF x = k THEN v ELSE f[x]]

MapDelete(f, k) == [x \in DOMAIN f \ {k} |-> f[x]]

\* A map lookup: the nil pointer for a missing key.
Lookup(pages, k) == IF k \in DOMAIN pages THEN pages[k] ELSE NilPage

\* The keys of Pages that hold a page (not the nil pointer).
Docs(pages) == {k \in DOMAIN pages : ~pages[k].isNil}

\* The I/O failures the environment injects into one call: the names whose
\* load (os.ReadFile or md.Convert) fails, the names whose os.WriteFile
\* fails, and whether os.Rename fails.
NoFault == [load |-> {}, write |-> {}, rename |-> FALSE]

\* The frame of a store call: its arguments, its position and its locals.
\*   bl, i   the slice RenamePage ranges over and the index into it
\*   loaded  the map loadPages returned to Update
\*   res     "nil", "error" or "panic" once the body is over
\*   req     the edit request the call is made for, when it is made by
\*           servePostEdit
\*   held    for a page handler, whether the *Page it obtained is still an
\*           entry of w.Pages, and under which key
\*   written whether a field of that *Page was assigned to since the
\*           handler obtained it
NoRequest == [oldName |-> <<>>, name |-> <<>>, body |-> <<>>, none |-> TRUE]

NotHeld == [in |-> FALSE, key |-> <<>>]

Held(k) == [in |-> TRUE, key |-> k]

Call(op, name, new, content, fault) ==
  [op |-> op, pc |-> "body", name |-> name, new |-> new,
   content |-> content, fault |-> fault, bl |-> <<>>, i |-> 0,
   loaded |-> <<>>, res |-> "", req |-> NoRequest, held |-> NotHeld,
   written |-> FALSE]

Idle == Call("none", <<>>, <<>>, <<>>, NoFault)

\* The body of a call is over: what is left is the deferred Unlock.
Over(c, res) == [c EXCEPT !.pc = "unlock", !.res = res]

(***************************************************************************)
(* loadPages                                                               *)
(***************************************************************************)

\* The files filepath.WalkDir collects: every markdown file below dir.
mdFiles(dsk) == DOMAIN dsk

\* The workers send their pages in any order and the collecting loop does
\* pages[page.Name] = page for each: of the files that share a base name
\* the one received last stays. A winner function picks that file for
\* every name.
Winners(files) ==
  {w \in [{f.name : f \in files} -> files] :
     \A n \in DOMAIN w : w[n].name = n}

\* loadPages: an error when a worker failed, else the collected pages with
\* the search page added and the backlinks built.
loadPagesFails(dsk, fault) == \E f \in mdFiles(dsk) : f.name \in fault.load

AddSearch(pages) ==
  IF SearchName \in DOMAIN pages THEN pages
  ELSE MapSet(pages, SearchName, DefaultSearch)

loadPages(dsk, win) ==
  buildBacklinks(AddSearch([n \in DOMAIN win |-> loadPage(n, dsk[win[n]])]))

(***************************************************************************)
(* One step of a store call. st = [c, pages, dsk]: the frame, w.Pages and  *)
(* the directory; win is the order in which Update's workers deliver.      *)
(***************************************************************************)

\* A variant of Update that installs the pages that did load when a worker
\* failed.
UpdateStepPartial(st, win) ==
  LET c == st.c IN
  IF c.pc = "body"
  THEN IF loadPagesFails(st.dsk, c.fault)
       THEN [st EXCEPT
               !.pages = AddSearch(
                 [n \in {m \in DOMAIN win : m \notin c.fault.load} |->
                    loadPage(n, st.dsk[win[n]])]),
               !.c = Over(c, "error")]
       ELSE [st EXCEPT !.c = [c EXCEPT !.pc = "install",
                                       !.loaded = loadPages(st.dsk, win)]]
  ELSE [st EXCEPT !.pages = c.loaded, !.c = Over(c, "nil")]

\* Update: loadPages, then w.Pages = pages.
UpdateStep(st, win) ==
  LET c == st.c IN
  IF c.pc = "body"
  THEN IF loadPagesFails(st.dsk, c.fault)
       THEN [st EXCEPT !.c = Over(c, "error")]
       ELSE [st EXCEPT !.c = [c EXCEPT !.pc = "install",
                                       !.loaded = loadPages(st.dsk, win)]]
  ELSE [st EXCEPT !.pages = c.loaded, !.c = Over(c, "nil")]

\* A variant of BuildStep in which the call returns without rebuilding the
\* backlinks.
BuildStepSkipped(st) == [st EXCEPT !.c = Over(st.c, "nil")]

\* buildBacklinks(w.Pages) as the last statement of a call.
BuildStep(st) ==
  IF BuildPanics(st.pages)
  THEN [st EXCEPT !.c = Over(st.c, "panic")]
  ELSE [st EXCEPT !.pages = buildBacklinks(st.pages), !.c = Over(st.c, "nil")]

\* A variant of UpdateSingleFailed in which the result of loadPage is
\* stored before its error is looked at.
UpdateSingleFailedStoresNil(st) ==
  [st EXCEPT !.pages = MapSet(st.pages, st.c.name, NilPage),
             !.c = Over(st.c, "error")]

\* UpdateSingle when loadPage failed: if err != nil { return err }
UpdateSingleFailed(st) == [st EXCEPT !.c = Over(st.c, "error")]

\* UpdateSingle: loadPage, w.Pages[name] = page, buildBacklinks.
UpdateSingleStep(st) ==
  LET c == st.c
      path == getPagePath(c.name)
  IN IF c.pc = "body"
     THEN IF path \notin DOMAIN st.dsk \/ c.name \in c.fault.load
          THEN UpdateSingleFailed(st)
          ELSE [st EXCEPT
                  !.pages = MapSet(st.pages, c.name,
                                   loadPage(c.name, st.dsk[path])),
                  !.c = [c EXCEPT !.pc = "build"]]
     ELSE BuildStep(st)

\* WritePage: os.WriteFile.
WritePageStep(st) ==
  LET c == st.c IN
  IF c.name \in c.fault.write
  THEN [st EXCEPT !.c = Over(c, "error")]
  ELSE [st EXCEPT !.dsk = MapSet(st.dsk, getPagePath(c.name), c.content),
                  !.c = Over(c, "nil")]

\* A variant of osRenameFails in which the error of os.Rename is dropped.
osRenameErrIgnored(dsk, c) == FALSE

\* os.Rename(old, new) fails: the old file does not exist, or the
\* environment makes the call fail.
osRenameFails(dsk, c) ==
  getPagePath(c.name) \notin DOMAIN dsk \/ c.fault.rename

\* os.Rename(old, new): new is replaced when it exists; the same path is
\* left as it is.
osRename(dsk, old, new) ==
  IF old \notin DOMAIN dsk \/ old = new THEN dsk
  ELSE MapDelete(MapSet(dsk, new, dsk[old]), old)

\* RenamePage.
\*   "body"    os.Rename, the move of the map entry, and the evaluation of
\*             w.Pages[newName].Backlinks, the slice the loop ranges over
\*   "loop"    the lookup of the linking page, renameWikilinks, WritePage
\*   "reload"  loadPage of the linking page and its assignment
\*   "build"   buildBacklinks
RenamePageStep(st) ==
  LET c == st.c IN
  CASE c.pc = "body" ->
         IF osRenameFails(st.dsk, c)
         THEN [st EXCEPT !.c = Over(c, "error")]
         ELSE LET moved == MapDelete(MapSet(st.pages, c.new,
                                            Lookup(st.pages, c.name)),
                                     c.name)
                  d2 == osRename(st.dsk, getPagePath(c.name),
                                 getPagePath(c.new))
              IN IF Lookup(moved, c.new).isNil
                 THEN [st EXCEPT !.dsk = d2, !.pages = moved,
                                 !.c = Over(c, "panic")]
                 ELSE [st EXCEPT !.dsk = d2, !.pages = moved,
                                 !.c = [c EXCEPT !.pc = "loop", !.i = 1,
                                          !.bl = moved[c.new].Backlinks]]
    [] c.pc = "loop" ->
         IF c.i > Len(c.bl) THEN [st EXCEPT !.c = [c EXCEPT !.pc = "build"]]
         ELSE LET linkingPageName == c.bl[c.i]
                  linkingPage == Lookup(st.pages, linkingPageName)
              IN IF linkingPage.isNil
                 THEN [st EXCEPT !.c = Over(c, "panic")]
                 ELSE IF linkingPageName \in c.fault.write
                 THEN [st EXCEPT !.c = Over(c, "error")]
                 ELSE [st EXCEPT
                         !.dsk = MapSet(st.dsk, getPagePath(linkingPageName),
                                   renameWikilinks(linkingPage.Raw,
                                                   c.name, c.new)),
                         !.c = [c EXCEPT !.pc = "reload"]]
    [] c.pc = "reload" ->
         LET linkingPageName == c.bl[c.i]
             path == getPagePath(linkingPageName)
         IN IF path \notin DOMAIN st.dsk \/ linkingPageName \in c.fault.load
            THEN [st EXCEPT !.c = Over(c, "error")]
            ELSE [st EXCEPT
                    !.pages = MapSet(st.pages, linkingPageName,
                                loadPage(linkingPageName, st.dsk[path])),
                    !.c = [c EXCEPT !.pc = "loop", !.i = c.i + 1]]
    [] OTHER -> BuildStep(st)

Step(st, win) ==
  CASE st.c.op = "Update" -> UpdateStep(st, win)
    [] st.c.op = "UpdateSingle" -> UpdateSingleStep(st)
    [] st.c.op = "WritePage" -> WritePageStep(st)
    [] OTHER -> RenamePageStep(st)

\* A call run from its first statement to its return with nothing else
\* running in between.
RECURSIVE Run(_, _)
Run(st, win) == IF st.c.pc = "unlock" THEN st ELSE Run(Step(st, win), win)

(***************************************************************************)
(* The names, contents and failures the calls are made with                *)
(***************************************************************************)

NameA == <<"a">>
NameB == <<"b">>
NameC == <<"c">>
\* A name outside the grammar ^[a-zA-Z0-9_+-]+$.
BadName == <<"c", "|", "d">>

TextTitle == <<"#", " ", "x", "\n">>
TextLinkA == <<"[", "[", "a", "]", "]">>
TextLinkB == <<"[", "[", "b", "]", "]">>
TextLinkAB ==
  <<"[", "[", "a", "]", "]", "[", "[", " ", "b", " ", "|", "x", "]", "]">>

\* The directories the server is started on. In each a.md links to b.md;
\* one has a search.md of its own, one a second a.md in a subdirectory, in
\* one b.md links to a.md and to itself, and in one search.md links to b.md
\* as well.
BaseDisk ==
  [f \in {getPagePath(NameA), getPagePath(NameB)} |->
     IF f.name = NameA THEN TextLinkB ELSE TextTitle]

InitDisks ==
  { BaseDisk,
    MapSet(BaseDisk, getPagePath(SearchName), TextLinkA),
    MapSet(BaseDisk, [dir |-> SubDir, name |-> NameA], TextTitle),
    MapSet(BaseDisk, getPagePath(NameB), TextLinkAB),
    MapSet(BaseDisk, getPagePath(SearchName), TextLinkB) }

LoadFault == [load |-> {NameA}, write |-> {}, rename |-> FALSE]
WriteFault == [load |-> {}, write |-> {NameA}, rename |-> FALSE]
RenameFault == [load |-> {}, write |-> {}, rename |-> TRUE]
LoadFaultSearch == [load |-> {SearchName}, write |-> {}, rename |-> FALSE]
WriteFaultSearch == [load |-> {}, write |-> {SearchName}, rename |-> FALSE]

\* The calls made on the store.
UpdateCalls ==
  {Call("Update", <<>>, <<>>, <<>>, f) : f \in {NoFault, LoadFault}}

UpdateSingleCalls ==
  {Call("UpdateSingle", n, <<>>, <<>>, NoFault) : n \in {NameA, NameB, NameC}}
    \cup {Call("UpdateSingle", NameA, <<>>, <<>>, LoadFault)}

WritePageCalls ==
  { Call("WritePage", NameA, <<>>, TextLinkAB, NoFault),
    Call("WritePage", NameB, <<>>, TextLinkB, NoFault),
    Call("WritePage", NameA, <<>>, TextLinkAB, WriteFault),
    Call("WritePage", NameC, <<>>, TextLinkA, NoFault) }

RenamePageCalls ==
  {Call("RenamePage", NameB, NameC, <<>>, f) :
     f \in {NoFault, LoadFault, WriteFault, RenameFault,
            LoadFaultSearch, WriteFaultSearch}}
    \cup {Call("RenamePage", p[1], p[2], <<>>, NoFault) :
            p \in { <<NameC, NameB>>, <<SearchName, NameC>>,
                    <<NameB, BadName>>, <<NameB, NameB>>, <<NameB, NameA>> }}

\* The number of calls made on the store after the first Update.
MaxCalls == 3

(***************************************************************************)
(* Spec: the calls of the store, each run from start to return             *)
(***************************************************************************)

NoLock == [writer |-> "none", readers |-> {}]
Goroutines == {"g1", "g2"}

\* What is seen of a call that returned: its arguments, its result and the
\* I/O failures it met.
Returned(c) ==
  [op |-> c.op, name |-> c.name, new |-> c.new, res |-> c.res,
   fault |-> c.fault]

\* No run of loadPages and no evaluation is being followed, and WatchDir
\* has not been started.
NoLoad == [pc |-> "none"]
NoEval == [fn |-> "none"]
NoWatch == [pc |-> "none"]

Init ==
  /\ disk \in InitDisks
  /\ Pages = <<>>
  /\ phase = "start"
  /\ ret = Returned(Idle)
  /\ ncalls = 0
  /\ mu = NoLock
  /\ calls = [g \in Goroutines |-> Idle]
  /\ ld = NoLoad
  /\ ev = NoEval
  /\ wd = NoWatch

\* The call c run to its return on the current store.
Do(c, win) ==
  \E end \in {Run([c |-> c, pages |-> Pages, dsk |-> disk], win)} :
     /\ Pages' = end.pages
     /\ disk' = end.dsk
     /\ ret' = Returned(end.c)

\* main: the first Update; the server exits when it fails.
Boot ==
  /\ phase = "start"
  /\ \E c \in UpdateCalls, win \in Winners(mdFiles(disk)) :
       /\ Do(c, win)
       /\ phase' = IF ret'.res = "nil" THEN "serving" ELSE "exited"
  /\ UNCHANGED <<ncalls, mu, calls, ld, ev, wd>>

Serving ==
  /\ phase = "serving"
  /\ ncalls < MaxCalls
  /\ ncalls' = ncalls + 1
  /\ UNCHANGED <<phase, mu, calls, ld, ev, wd>>

Update ==
  /\ Serving
  /\ \E c \in UpdateCalls, win \in Winners(mdFiles(disk)) : Do(c, win)

UpdateSingle ==
  /\ Serving
  /\ \E c \in UpdateSingleCalls : Do(c, <<>>)

WritePage ==
  /\ Serving
  /\ \E c \in WritePageCalls : Do(c, <<>>)

RenamePage ==
  /\ Serving
  /\ \E c \in RenamePageCalls : Do(c, <<>>)

Next == Boot \/ Update \/ UpdateSingle \/ WritePage \/ RenamePage

Spec == Init /\ [][Next]_vars

(***************************************************************************)
(* SpecConc: the same calls made by concurrent goroutines, one statement   *)
(* group at a time, under w.mu                                             *)
(***************************************************************************)

\* The calls that change w.Pages.
Mutators == {"Update", "UpdateSingle", "RenamePage"}

\* A variant of FirstPc in which UpdateSingle does not take the lock.
FirstPcSingleUnlocked(op) ==
  IF op \in {"Update", "RenamePage"} THEN "lock"
  ELSE IF op = "Read" THEN "rlock"
  ELSE "body"

\* Where a call starts: Update, UpdateSingle and RenamePage with
\* w.mu.Lock(), the page handlers with w.mu.RLock(); WritePage takes no lock.
FirstPc(op) ==
  IF op \in Mutators THEN "lock"
  ELSE IF op = "Read" THEN "rlock"
  ELSE "body"

\* g is between the Lock and the deferred Unlock of a mutating call.
InCritical(g) ==
  calls[g].op \in Mutators /\ calls[g].pc # "lock"

\* The calls the goroutines make.
ConcCalls ==
  { Call("Update", <<>>, <<>>, <<>>, NoFault),
    Call("UpdateSingle", NameA, <<>>, <<>>, NoFault),
    Call("RenamePage", NameB, NameC, <<>>, NoFault),
    Call("WritePage", NameA, <<>>, TextLinkAB, NoFault),
    Call("Read", NameA, <<>>, <<>>, NoFault),
    Call("Read", NameB, <<>>, <<>>, NoFault) }

\* A goroutine enters a call.
Start ==
  /\ phase = "serving"
  /\ ncalls < MaxCalls
  /\ \E g \in Goroutines, c \in ConcCalls :
       /\ calls[g].op = "none"
       /\ calls' = [calls EXCEPT ![g] = [c EXCEPT !.pc = FirstPc(c.op)]]
  /\ ncalls' = ncalls + 1
  /\ UNCHANGED <<disk, Pages, phase, ret, mu, ld, ev, wd>>

\* w.mu.Lock(): blocks while the lock is held by a writer or by readers.
Lock ==
  /\ \E g \in Goroutines :
       /\ calls[g].pc = "lock"
       /\ mu.writer = "none" /\ mu.readers = {}
       /\ mu' = [mu EXCEPT !.writer = g]
       /\ calls' = [calls EXCEPT ![g].pc = "body"]
  /\ UNCHANGED <<disk, Pages, phase, ret, ncalls, ld, ev, wd>>

\* Where the *Page a handler holds is after a step of a mutating call that
\* took its frame from c to d: Update installs a new map of new pages,
\* UpdateSingle and the reload in RenamePage's loop put a new page under one
\* key, and RenamePage moves the page of oldName to newName, dropping the
\* page that was there.
Track(h, c, d) ==
  IF ~h.in THEN h
  ELSE IF c.op = "Update"
  THEN (IF c.pc = "install" THEN NotHeld ELSE h)
  ELSE IF c.op = "UpdateSingle"
  THEN (IF c.pc = "body" /\ d.pc = "build" /\ h.key = c.name
        THEN NotHeld ELSE h)
  ELSE IF c.pc = "body" /\ d.res # "error"
  THEN (IF h.key = c.name
        THEN (IF c.new = c.name THEN NotHeld ELSE Held(c.new))
        ELSE IF h.key = c.new THEN NotHeld ELSE h)
  ELSE IF c.pc = "reload" /\ d.pc = "loop" /\ h.key = c.bl[c.i]
  THEN NotHeld
  ELSE h

\* The step from c to d is a buildBacklinks(w.Pages) that ran to its end:
\* pages[name].Backlinks = backlinks assigns to the Backlinks field of every
\* page of the map.
WritesBacklinks(c, d) == c.pc = "build" /\ d.res = "nil"

\* The frames after goroutine g took a step to frame d: the others keep
\* track of the page they hold and of a write to it.
AfterStep(g, d) ==
  [h \in Goroutines |->
     IF h = g THEN d
     ELSE [calls[h] EXCEPT
             !.held = Track(@, calls[g], d),
             !.written = @ \/ (calls[h].held.in
                                 /\ WritesBacklinks(calls[g], d))]]

\* The next statements of a mutating call.
Body ==
  /\ \E g \in Goroutines, win \in Winners(mdFiles(disk)) :
       /\ calls[g].op \in Mutators
       /\ calls[g].pc \notin {"lock", "unlock"}
       /\ \E st \in {Step([c |-> calls[g], pages |-> Pages, dsk |-> disk],
                           win)} :
            /\ Pages' = st.pages
            /\ disk' = st.dsk
            /\ calls' = AfterStep(g, st.c)
  /\ UNCHANGED <<phase, ret, ncalls, mu, ld, ev, wd>>

\* The deferred w.mu.Unlock() and the return (also when the call panicked).
Unlock ==
  /\ \E g \in Goroutines :
       /\ calls[g].op \in Mutators
       /\ calls[g].pc = "unlock"
       /\ calls[g].req.none
       /\ mu' = [mu EXCEPT !.writer = "none"]
       /\ ret' = Returned(calls[g])
       /\ calls' = [calls EXCEPT ![g] = Idle]
  /\ UNCHANGED <<disk, Pages, phase, ncalls, ld, ev, wd>>

\* WritePage called by a handler: os.WriteFile and the return.
WriteFile ==
  /\ \E g \in Goroutines :
       /\ calls[g].op = "WritePage"
       /\ calls[g].req.none
       /\ \E st \in {Step([c |-> calls[g], pages |-> Pages, dsk |-> disk],
                           <<>>)} :
            /\ disk' = st.dsk
            /\ ret' = Returned(st.c)
       /\ calls' = [calls EXCEPT ![g] = Idle]
  /\ UNCHANGED <<Pages, phase, ncalls, mu, ld, ev, wd>>

\* The page handlers (ServeHTTP, serveGetEdit): w.mu.RLock() ...
RLock ==
  /\ \E g \in Goroutines :
       /\ calls[g].pc = "rlock"
       /\ mu.writer = "none"
       /\ mu' = [mu EXCEPT !.readers = @ \cup {g}]
       /\ calls' = [calls EXCEPT ![g].pc = "read"]
  /\ UNCHANGED <<disk, Pages, phase, ret, ncalls, ld, ev, wd>>

\* ... page, ok := w.Pages[name]; w.mu.RUnlock() ...
ReadUnlock ==
  /\ \E g \in Goroutines :
       /\ calls[g].pc = "read"
       /\ mu' = [mu EXCEPT !.readers = @ \ {g}]
       /\ calls' = [calls EXCEPT
                      ![g].pc = "render",
                      ![g].loaded = Lookup(Pages, calls[g].name),
                      ![g].held = IF calls[g].name \in Docs(Pages)
                                  THEN Held(calls[g].name) ELSE NotHeld]
  /\ UNCHANGED <<disk, Pages, phase, ret, ncalls, ld, ev, wd>>

\* ... and the use of the page's fields after the lock is released.
Render ==
  /\ \E g \in Goroutines :
       /\ calls[g].pc = "render"
       /\ ret' = Returned([calls[g] EXCEPT !.res = "nil"])
       /\ calls' = [calls EXCEPT ![g] = Idle]
  /\ UNCHANGED <<disk, Pages, phase, ncalls, mu, ld, ev, wd>>

NextConc ==
  \/ Boot \/ Start \/ Lock \/ Body \/ Unlock
  \/ WriteFile \/ RLock \/ ReadUnlock \/ Render

SpecConc == Init /\ [][NextConc]_vars

(***************************************************************************)
(* SpecEdit: concurrent POST requests to /api/edit/{name}, each handled by *)
(* servePostEdit in a goroutine of its own, and Update called by WatchDir. *)
(* The handler's calls of RenamePage and UpdateSingle run statement group  *)
(* by statement group under w.mu (Lock and Body above); WritePage takes no *)
(* lock.                                                                   *)
(***************************************************************************)

\* A request: the name of the path, the submitted name and body, and the
\* I/O failures the environment injects into the calls made for it.
Request(oldName, name, body, fault) ==
  [oldName |-> oldName, name |-> name, body |-> body, fault |-> fault,
   none |-> FALSE]

EditRequests ==
  { Request(NameA, NameA, TextLinkAB, NoFault),
    Request(NameA, NameA, TextLinkAB, LoadFault),
    Request(NameB, NameC, TextTitle, NoFault),
    Request(BadName, BadName, TextTitle, NoFault),
    Request(NameB, BadName, TextTitle, NoFault) }

\* A variant of Rejected in which only the name of the path is validated.
RejectedPathOnly(oldName, name) == ~isValidName(oldName)

\* servePostEdit answers 400: the name of the path is not valid, or the
\* submitted name differs from it and is not valid.
Rejected(oldName, name) ==
  ~isValidName(oldName) \/ (name # oldName /\ ~isValidName(name))

\* The response of servePostEdit to request r: "400", "500", "303", or
\* "panic" when a call panicked (net/http recovers and drops the
\* connection).
Responded(r, status) ==
  [op |-> "servePostEdit", name |-> r.oldName, new |-> r.name,
   res |-> status, fault |-> r.fault]

\* The calls servePostEdit makes for r, at their first statement.
RenameCall(r) ==
  [Call("RenamePage", r.oldName, r.name, <<>>, r.fault) EXCEPT
     !.pc = FirstPc("RenamePage"), !.req = r]

WriteCall(r) ==
  [Call("WritePage", r.name, <<>>, r.body, r.fault) EXCEPT !.req = r]

UpdateSingleCall(r) ==
  [Call("UpdateSingle", r.name, <<>>, <<>>, r.fault) EXCEPT
     !.pc = FirstPc("UpdateSingle"), !.req = r]

\* The status servePostEdit answers with when call c has returned, or
\* "next" when it goes on to its next call.
StatusAfter(c) ==
  IF c.res = "panic" THEN "panic"
  ELSE IF c.res = "error" THEN "500"
  ELSE IF c.op = "UpdateSingle" THEN "303"
  ELSE "next"

\* The call that follows c in servePostEdit.
CallAfter(c) ==
  IF c.op = "RenamePage" THEN WriteCall(c.req) ELSE UpdateSingleCall(c.req)

\* What a goroutine does when call c has returned, and the response.
Continue(g, c) ==
  IF StatusAfter(c) = "next"
  THEN /\ calls' = [calls EXCEPT ![g] = CallAfter(c)]
       /\ ret' = ret
  ELSE /\ calls' = [calls EXCEPT ![g] = Idle]
       /\ ret' = Responded(c.req, StatusAfter(c))

\* A request arrives: the validation of the names, then either the
\* response 400 or the first call (RenamePage when the name was changed).
servePostEdit ==
  /\ phase = "serving"
  /\ ncalls < MaxCalls
  /\ ncalls' = ncalls + 1
  /\ \E g \in Goroutines, r \in EditRequests :
       /\ calls[g].op = "none"
       /\ IF Rejected(r.oldName, r.name)
          THEN /\ ret' = Responded(r, "400")
               /\ calls' = calls
          ELSE /\ calls' = [calls EXCEPT ![g] =
                              IF r.name # r.oldName THEN RenameCall(r)
                              ELSE WriteCall(r)]
               /\ ret' = ret
  /\ UNCHANGED <<disk, Pages, phase, mu, ld, ev, wd>>

\* RenamePage or UpdateSingle returns to servePostEdit: the deferred
\* Unlock, then the next call or the response.
ReturnToEdit ==
  /\ \E g \in Goroutines :
       /\ calls[g].op \in Mutators
       /\ calls[g].pc = "unlock"
       /\ ~calls[g].req.none
       /\ mu' = [mu EXCEPT !.writer = "none"]
       /\ Continue(g, calls[g])
  /\ UNCHANGED <<disk, Pages, phase, ncalls, ld, ev, wd>>

\* a.wiki.WritePage(name, body): os.WriteFile, then UpdateSingle or the
\* response 500.
WriteBody ==
  /\ \E g \in Goroutines :
       /\ calls[g].op = "WritePage"
       /\ ~calls[g].req.none
       /\ \E st \in {Step([c |-> calls[g], pages |-> Pages, dsk |-> disk],
                           <<>>)} :
            /\ disk' = st.dsk
            /\ Continue(g, st.c)
  /\ UNCHANGED <<Pages, phase, ncalls, mu, ld, ev, wd>>

\* WatchDir calls wiki.Update().
Reload ==
  /\ phase = "serving"
  /\ ncalls < MaxCalls
  /\ ncalls' = ncalls + 1
  /\ \E g \in Goroutines :
       /\ calls[g].op = "none"
       /\ calls' = [calls EXCEPT ![g] =
                      [Call("Update", <<>>, <<>>, <<>>, NoFault) EXCEPT
                         !.pc = FirstPc("Update")]]
  /\ UNCHANGED <<disk, Pages, phase, ret, mu, ld, ev, wd>>

NextEdit ==
  \/ Boot \/ servePostEdit \/ Reload \/ Lock \/ Body \/ Unlock
  \/ ReturnToEdit \/ WriteBody

SpecEdit == Init /\ [][NextEdit]_vars

(***************************************************************************)
(* SpecWatch: the WatchDir goroutine that main starts after the first      *)
(* Update. Time passes in steps of TickMs. ctx is never cancelled and the  *)
(* watcher's channels are never closed while the server runs (main cancels *)
(* on return only, and watcher.Close is deferred in WatchDir itself), so   *)
(* the loop has no reachable return.                                       *)
(*   pc      "select" at the select statement, "update" in wiki.Update()   *)
(*   timer   the ticks left until debounce fires, 0 when it is not running *)
(*   C       1 when the timer has fired and its value waits in debounce.C  *)
(*   sync    the timer implementation of the toolchain: TRUE when Reset    *)
(*           discards a value that waits in debounce.C (Go 1.23 and        *)
(*           later), FALSE when the value stays in the buffered channel    *)
(*   q       the events waiting on watcher.Events                          *)
(*   quiet   the ticks since the last event was received, up to the        *)
(*           debounce time                                                 *)
(*   dirty   a file changed and no Update has started since                *)
(*   loaded  for every content the directory can get, the maps loadPages   *)
(*           can return for it                                             *)
(***************************************************************************)

\* debounce.Reset(200 * time.Millisecond)
DebounceMs == 200

\* The length of a step of time.
TickMs == 100

DebounceTicks == DebounceMs \div TickMs

\* The number of changes made to the directory while the watcher runs, and
\* of errors the watcher reports.
MaxChanges == 3
MaxWatchErrors == 1

\* The contents an editor writes to a.md.
ChangedTexts == {TextLinkAB, TextTitle}

\* The contents the directory d can get.
WatchDisks(d) ==
  {d} \cup {MapSet(d, getPagePath(NameA), t) : t \in ChangedTexts}

\* go WatchDir(ctx, wiki): the watcher is added and the timer is made,
\* stopped and drained.
StartWatch ==
  /\ phase = "serving"
  /\ wd.pc = "none"
  /\ \E sync \in BOOLEAN :
       wd' = [pc |-> "select", timer |-> 0, C |-> 0, sync |-> sync, q |-> 0,
              quiet |-> DebounceTicks, dirty |-> FALSE, changes |-> 0,
              errs |-> 0,
              loaded |-> [v \in WatchDisks(disk) |->
                            {loadPages(v, win) : win \in Winners(mdFiles(v))}]]
  /\ UNCHANGED <<disk, Pages, phase, ret, ncalls, mu, calls, ld, ev>>

\* A file of the directory is written by an editor; the watcher queues an
\* event.
Change ==
  /\ wd.pc # "none"
  /\ wd.changes < MaxChanges
  /\ \E t \in ChangedTexts : disk' = MapSet(disk, getPagePath(NameA), t)
  /\ wd' = [wd EXCEPT !.q = @ + 1, !.changes = @ + 1, !.dirty = TRUE]
  /\ UNCHANGED <<Pages, phase, ret, ncalls, mu, calls, ld, ev>>

\* A variant of Reset that leaves a running timer as it is.
ResetIfStopped(w) ==
  IF w.timer > 0 THEN w
  ELSE [w EXCEPT !.timer = DebounceTicks, !.C = IF w.sync THEN 0 ELSE @]

\* debounce.Reset(200 * time.Millisecond): the timer runs for the whole
\* debounce time again.
Reset(w) ==
  [w EXCEPT !.timer = DebounceTicks, !.C = IF w.sync THEN 0 ELSE @]

\* case ev, ok := <-watcher.Events
WatchEvent ==
  /\ wd.pc = "select"
  /\ wd.q > 0
  /\ wd' = [Reset(wd) EXCEPT !.q = @ - 1, !.quiet = 0]
  /\ UNCHANGED <<disk, Pages, phase, ret, ncalls, mu, calls, ld, ev>>

\* A step of time; the timer fires when its time is over.
Tick ==
  /\ wd.pc # "none"
  /\ wd.timer > 0
  /\ wd' = [wd EXCEPT
              !.timer = @ - 1,
              !.C = IF wd.timer = 1 THEN 1 ELSE @,
              !.quiet = IF @ < DebounceTicks THEN @ + 1 ELSE @]
  /\ UNCHANGED <<disk, Pages, phase, ret, ncalls, mu, calls, ld, ev>>

\* case <-debounce.C: the loop goes on to call wiki.Update()
WatchExpired ==
  /\ wd.pc = "select"
  /\ wd.C = 1
  /\ wd' = [wd EXCEPT !.C = 0, !.pc = "update", !.dirty = FALSE]
  /\ UNCHANGED <<disk, Pages, phase, ret, ncalls, mu, calls, ld, ev>>

\* wiki.Update() run to its return; an error is logged and the loop
\* continues.
WatchUpdate ==
  /\ wd.pc = "update"
  /\ \E c \in UpdateCalls :
       IF loadPagesFails(disk, c.fault)
       THEN /\ Pages' = Pages
            /\ ret' = Returned(Over(c, "error"))
       ELSE /\ Pages' \in wd.loaded[disk]
            /\ ret' = Returned(Over(c, "nil"))
  /\ wd' = [wd EXCEPT !.pc = "select"]
  /\ UNCHANGED <<disk, phase, ncalls, mu, calls, ld, ev>>

\* case err, ok := <-watcher.Errors: the error is logged
WatchError ==
  /\ wd.pc = "select"
  /\ wd.errs < MaxWatchErrors
  /\ wd' = [wd EXCEPT !.errs = @ + 1]
  /\ UNCHANGED <<disk, Pages, phase, ret, ncalls, mu, calls, ld, ev>>

NextWatch ==
  \/ Boot \/ StartWatch \/ Change \/ WatchEvent \/ Tick \/ WatchExpired
  \/ WatchUpdate \/ WatchError

\* Time passes, and the scheduler runs the WatchDir goroutine whenever a
\* case of its select is ready or its call of Update can go on.
WatchFairness ==
  /\ WF_vars(Tick) /\ WF_vars(WatchEvent) /\ WF_vars(WatchExpired)
  /\ WF_vars(WatchUpdate)

SpecWatch == Init /\ [][NextWatch]_vars /\ WatchFairness

(***************************************************************************)
(* SpecLoad: one run of loadPages(dir) at the level of its goroutines: the *)
(* spawning loop, one worker per file, the goroutine that closes pageCh    *)
(* and the collecting loop. pageCh is unbuffered, so a send and its        *)
(* receive are one step. Each worker has its own path (the closure         *)
(* captures the per-iteration loop variable).                              *)
(***************************************************************************)

\* errCh := make(chan error, 1)
ErrChCap == 1

\* A variant of SendErr for an unbuffered errCh: with no receiver waiting
\* the select always takes its default case.
SendErrUnbuffered(errCh, err) == errCh

\* select { case errCh <- err: default: }
SendErr(errCh, err) ==
  IF Len(errCh) < ErrChCap THEN Append(errCh, err) ELSE errCh

\* The state of loadPages after WalkDir, with the loads that will fail.
\*   page  for each file the page loadPage returns for it when it does not
\*         fail (the directory does not change during the run)
StartLoad(dsk, fail) ==
  [pc |-> "spawn", fail |-> fail, todo |-> mdFiles(dsk),
   page |-> [f \in mdFiles(dsk) |-> loadPage(f.name, dsk[f])],
   w |-> [f \in mdFiles(dsk) |-> "idle"], wg |-> 0, closer |-> "none",
   errCh |-> <<>>, pages |-> <<>>, res |-> "", out |-> <<>>]

InitLoad ==
  /\ disk \in InitDisks
  /\ Pages = <<>>
  /\ phase = "start"
  /\ ret = Returned(Idle)
  /\ ncalls = 0
  /\ mu = NoLock
  /\ calls = [g \in Goroutines |-> Idle]
  /\ ld \in {StartLoad(disk, fail) : fail \in SUBSET mdFiles(disk)}
  /\ ev = NoEval
  /\ wd = NoWatch

StoreIdle ==
  UNCHANGED <<disk, Pages, phase, ret, ncalls, mu, calls, ev, wd>>

\* for _, path := range mdFiles { wg.Add(1); go func() {...}() }
Spawn ==
  /\ ld.pc = "spawn"
  /\ \E f \in ld.todo :
       ld' = [ld EXCEPT !.todo = @ \ {f}, !.wg = @ + 1, !.w[f] = "load"]
  /\ StoreIdle

\* go func() { wg.Wait(); close(pageCh) }(), then the collecting loop starts
StartCollect ==
  /\ ld.pc = "spawn" /\ ld.todo = {}
  /\ ld' = [ld EXCEPT !.pc = "collect", !.closer = "wait"]
  /\ StoreIdle

\* page, err := loadPage(path)
WorkerLoad ==
  /\ \E f \in DOMAIN ld.w :
       /\ ld.w[f] = "load"
       /\ ld' = [ld EXCEPT !.w[f] = IF f \in ld.fail THEN "senderr"
                                     ELSE "send"]
  /\ StoreIdle

\* the select on errCh, then return
WorkerSendErr ==
  /\ \E f \in DOMAIN ld.w :
       /\ ld.w[f] = "senderr"
       /\ ld' = [ld EXCEPT !.errCh = SendErr(@, f), !.w[f] = "exit"]
  /\ StoreIdle

\* A variant of Ranging in which the collecting loop stops receiving once a
\* worker has reported an error.
RangingUntilError(l) ==
  l.pc = "collect" /\ l.closer # "closed" /\ l.errCh = <<>>

\* The collecting loop is receiving: for page := range pageCh runs from the
\* end of the spawning loop until pageCh is closed, whatever errCh holds.
Ranging(l) == l.pc = "collect" /\ l.closer # "closed"

\* pageCh <- page, received by: for page := range pageCh
\*                                { pages[page.Name] = page }
Receive ==
  /\ Ranging(ld)
  /\ \E f \in DOMAIN ld.w :
       /\ ld.w[f] = "send"
       /\ ld' = [ld EXCEPT
                   !.pages = MapSet(@, f.name, ld.page[f]),
                   !.w[f] = "exit"]
  /\ StoreIdle

\* defer wg.Done()
WorkerDone ==
  /\ \E f \in DOMAIN ld.w :
       /\ ld.w[f] = "exit"
       /\ ld' = [ld EXCEPT !.wg = @ - 1, !.w[f] = "done"]
  /\ StoreIdle

\* wg.Wait() returns; close(pageCh)
ClosePageCh ==
  /\ ld.pc # "none" /\ ld.closer = "wait" /\ ld.wg = 0
  /\ ld' = [ld EXCEPT !.closer = "closed"]
  /\ StoreIdle

\* the range loop ends on the closed channel
CollectEnd ==
  /\ ld.pc = "collect" /\ ld.closer = "closed"
  /\ ld' = [ld EXCEPT !.pc = "check"]
  /\ StoreIdle

\* select { case err := <-errCh: return nil, err; default: }, then the
\* search page, buildBacklinks and return pages, nil
CheckErr ==
  /\ ld.pc = "check"
  /\ ld' = IF ld.errCh # <<>>
           THEN [ld EXCEPT !.pc = "done", !.res = "error",
                           !.errCh = Tail(@)]
           ELSE [ld EXCEPT !.pc = "done", !.res = "nil",
                           !.out = buildBacklinks(AddSearch(ld.pages))]
  /\ StoreIdle

NextLoad ==
  \/ Spawn \/ StartCollect \/ WorkerLoad \/ WorkerSendErr \/ Receive
  \/ WorkerDone \/ ClosePageCh \/ CollectEnd \/ CheckErr

SpecLoad == InitLoad /\ [][NextLoad]_vars

\* The Go scheduler runs a goroutine that can take a step whenever there is
\* one: the spawning and collecting loop, a worker, or the goroutine that
\* closes pageCh.
LoadFairness == WF_vars(NextLoad)

SpecLoadFair == InitLoad /\ [][NextLoad]_vars /\ LoadFairness

(***************************************************************************)
(* SpecEval: single calls of loadPage, renameWikilinks, sortBacklinks and  *)
(* buildBacklinks on inputs drawn from bounded sets. A text is a sequence  *)
(* of at most MaxPieces pieces; a piece is plain text, a wikilink          *)
(* occurrence, a double-bracket form with an empty target, or an           *)
(* unclosed opening.                                                       *)
(*   kind    "plain", "link" (non-blank target), "empty" or "open"         *)
(*   target  the target of a link piece, trimmed                           *)
(*   label   the label segment of a link piece as written; has tells       *)
(*           whether the piece has a |label segment                        *)
(***************************************************************************)

Piece(kind, text, target, has, label) ==
  [kind |-> kind, text |-> text, target |-> target, has |-> has,
   label |-> label]

Pieces ==
  << Piece("link", TextLinkA, NameA, FALSE, <<>>),
     Piece("link", <<"[", "[", " ", "b", " ", "|", "x", "]", "]">>,
           NameB, TRUE, <<"x">>),
     Piece("link", <<"[", "[", "a", "|", " ", "]", "]">>,
           NameA, TRUE, <<" ">>),
     Piece("empty", <<"[", "[", "]", "]">>, <<>>, FALSE, <<>>),
     Piece("empty", <<"[", "[", "|", "x", "]", "]">>, <<>>, TRUE, <<"x">>),
     Piece("empty", <<"[", "[", " ", "]", "]">>, <<>>, FALSE, <<>>),
     Piece("plain", <<"x">>, <<>>, FALSE, <<>>),
     Piece("plain", <<"#", " ">>, <<>>, FALSE, <<>>),
     Piece("plain", <<"\n">>, <<>>, FALSE, <<>>),
     Piece("open", <<"[", "[", "a">>, <<>>, FALSE, <<>>) >>

MaxPieces == 3

\* The sequences of piece numbers of length at most n.
RECURSIVE PieceSeqs(_)
PieceSeqs(n) ==
  IF n = 0 THEN {<<>>}
  ELSE PieceSeqs(n - 1)
         \cup {Append(q, k) : q \in {r \in PieceSeqs(n - 1) : Len(r) = n - 1},
                              k \in 1..Len(Pieces)}

\* The text of a sequence of piece numbers.
RECURSIVE Flatten(_)
Flatten(q) ==
  IF q = <<>> THEN <<>> ELSE Pieces[Head(q)].text \o Flatten(Tail(q))

\* The names compared and sorted.
SortNames ==
  { <<"a">>, <<"b">>, <<"a", "b">>, <<"2">>, <<"2", "0">>, <<"9">>,
    <<"a", "p", "p", "l", "e">>, <<"b", "a", "n", "a", "n", "a">>,
    <<"2", "0", "2", "4", "-", "0", "1", "-", "0", "1">>,
    <<"2", "0", "2", "3", "-", "0", "5", "-", "0", "5">> }

\* The page every page of a buildBacklinks call links to.
TargetName == <<"x">>

\* The map buildBacklinks is called on: a page for each name, each linking
\* to the target page, the target page and the search page.
LinkingPages(names) ==
  AddSearch([n \in names \cup {TargetName} |->
               [loadPage(n, <<>>) EXCEPT
                  !.Links = IF n = TargetName THEN {} ELSE {TargetName}]])

EvalCalls ==
  {[fn |-> "loadPage", pc |-> "call", pieces |-> q, name |-> NameA,
    out |-> <<>>] : q \in PieceSeqs(MaxPieces)}
  \cup {[fn |-> "renameWikilinks", pc |-> "call", pieces |-> q,
         oldName |-> n[1], newName |-> n[2], out |-> <<>>] :
          q \in PieceSeqs(MaxPieces),
          n \in {<<NameB, NameC>>, <<NameA, NameB>>}}
  \cup {[fn |-> "sortBacklinks", pc |-> "call", a |-> a, b |-> b, c |-> c,
         out |-> <<>>] : a \in SortNames \cup {<<>>},
                         b \in SortNames \cup {<<>>},
                         c \in SortNames \cup {<<>>}}
  \cup {[fn |-> "buildBacklinks", pc |-> "call", names |-> ns,
         out |-> <<>>] : ns \in SUBSET SortNames}

InitEval ==
  /\ disk = <<>>
  /\ Pages = <<>>
  /\ phase = "start"
  /\ ret = Returned(Idle)
  /\ ncalls = 0
  /\ mu = NoLock
  /\ calls = [g \in Goroutines |-> Idle]
  /\ ld = NoLoad
  /\ ev \in EvalCalls
  /\ wd = NoWatch

EvalIdle ==
  UNCHANGED <<disk, Pages, phase, ret, ncalls, mu, calls, ld, wd>>

EvalLoadPage ==
  /\ ev.fn = "loadPage" /\ ev.pc = "call"
  /\ ev' = [ev EXCEPT !.pc = "done",
                      !.out = loadPage(ev.name, Flatten(ev.pieces))]
  /\ EvalIdle

EvalRenameWikilinks ==
  /\ ev.fn = "renameWikilinks" /\ ev.pc = "call"
  /\ ev' = [ev EXCEPT !.pc = "done",
                      !.out = renameWikilinks(Flatten(ev.pieces),
                                              ev.oldName, ev.newName)]
  /\ EvalIdle

\* sortBacklinks on the pairs of three names.
EvalSortBacklinks ==
  /\ ev.fn = "sortBacklinks" /\ ev.pc = "call"
  /\ ev' = [ev EXCEPT !.pc = "done",
                      !.out = [ab |-> sortBacklinks(ev.a, ev.b),
                               ba |-> sortBacklinks(ev.b, ev.a),
                               bc |-> sortBacklinks(ev.b, ev.c),
                               ac |-> sortBacklinks(ev.a, ev.c)]]
  /\ EvalIdle

EvalBuildBacklinks ==
  /\ ev.fn = "buildBacklinks" /\ ev.pc = "call"
  /\ ev' = [ev EXCEPT !.pc = "done",
                      !.out = buildBacklinks(LinkingPages(ev.names))]
  /\ EvalIdle

NextEval ==
  \/ EvalLoadPage \/ EvalRenameWikilinks \/ EvalSortBacklinks
  \/ EvalBuildBacklinks

SpecEval == InitEval /\ [][NextEval]_vars

(***************************************************************************)
(* Properties                                                              *)
(***************************************************************************)

Range(seq) == {seq[i] : i \in 1..Len(seq)}

\* The trimmed targets of the wikilinks of s, in the order they occur.
RECURSIVE TargetSeqFrom(_, _)
TargetSeqAt(m, s, i) ==
  IF m.ok
  THEN <<LinkTarget(Sub(s, i, m.last))>> \o TargetSeqFrom(s, m.last + 1)
  ELSE TargetSeqFrom(s, i + 1)

TargetSeqFrom(s, i) ==
  IF i > Len(s) THEN <<>> ELSE TargetSeqAt(MatchAt(s, i), s, i)

TargetSeq(s) == TargetSeqFrom(s, 1)

\* C1: whenever no mutating call holds the lock, for all documents A and B
\* of Pages, if B's name is in A.Links then A's name is in B.Backlinks.
C1_BacklinksCorrect ==
  mu.writer = "none" =>
    \A a \in Docs(Pages), b \in Docs(Pages) :
      b \in Pages[a].Links => a \in Range(Pages[b].Backlinks)

\* C2: Update, UpdateSingle and RenamePage hold the write lock from their
\* first statement to their return: at most one goroutine is inside one of
\* them and it is the lock's writer; while a reader holds the read lock no
\* goroutine is inside one; and a reader that follows a successful Update
\* sees the map that Update installed, with its backlinks built.
BacklinksBuilt(pages) ==
  \A k \in DOMAIN pages :
    pages[k].Backlinks = SortFunc(PageLinkers(pages, k))

C2_MutatorsExclusive ==
  /\ \A g \in Goroutines, h \in Goroutines :
       InCritical(g) /\ InCritical(h) => g = h
  /\ \A g \in Goroutines : InCritical(g) => mu.writer = g
  /\ mu.readers # {} => \A g \in Goroutines : ~InCritical(g)
  /\ \A g \in Goroutines : calls[g].pc = "read" => g \in mu.readers
  /\ (mu.readers # {} /\ ret.op = "Update" /\ ret.res = "nil")
       => BacklinksBuilt(Pages)

\* A goroutine is in the middle of RenamePage, between its first and its
\* last change of Pages, while another waits for the read lock.
C2_Witness ==
  \E g \in Goroutines, h \in Goroutines :
    /\ calls[g].op = "RenamePage" /\ calls[g].pc = "reload"
    /\ calls[h].pc = "rlock"

\* C3: when a page load fails during Update, Update returns the error and
\* Pages is the mapping it was before the call.
C3_FailedUpdateKeepsPages ==
  [][(ret'.op = "Update" /\ ret'.res = "error") => Pages' = Pages]_vars

\* A failed Update on a directory that no longer matches Pages.
C3_Witness ==
  /\ phase = "serving"
  /\ ret.op = "Update" /\ ret.res = "error"
  /\ NameA \in DOMAIN Pages
  /\ Pages[NameA].Raw # disk[getPagePath(NameA)]

\* C4: for all distinct documents A and B where A's raw content references
\* B, after RenamePage(B, C) returns success A's raw content, in memory and
\* on disk, references C wherever it referenced B and B nowhere, and
\* C.Backlinks includes A (A being another document than C).
Propagated(a, oldName, newName) ==
  /\ a \in Docs(Pages')
  /\ getPagePath(a) \in DOMAIN disk'
  /\ disk'[getPagePath(a)] = Pages'[a].Raw
  /\ TargetSeq(Pages'[a].Raw)
       = [i \in 1..Len(TargetSeq(Pages[a].Raw)) |->
            IF TargetSeq(Pages[a].Raw)[i] = oldName THEN newName
            ELSE TargetSeq(Pages[a].Raw)[i]]
  /\ oldName \notin Range(TargetSeq(Pages'[a].Raw))
  /\ newName \in Docs(Pages')
  /\ a \in Range(Pages'[newName].Backlinks)

C4_RenamePropagates ==
  [][(ret'.op = "RenamePage" /\ ret'.res = "nil") =>
       \A a \in Docs(Pages) :
         ( /\ a # ret'.name /\ a # ret'.new
           /\ ret'.name \in Docs(Pages)
           /\ ret'.name \in Range(TargetSeq(Pages[a].Raw)) )
         => Propagated(a, ret'.name, ret'.new)]_vars

\* C5: RenamePage called with an oldName or newName outside the identifier
\* grammar returns a validation error and changes neither the storage nor
\* Pages.
C5_RenameValidatesNames ==
  [][(ret'.op = "RenamePage"
        /\ ~(isValidName(ret'.name) /\ isValidName(ret'.new)))
       => (ret'.res = "error" /\ Pages' = Pages /\ disk' = disk)]_vars

\* C6: after every successful Update or UpdateSingle the backlinks of
\* search are exactly the keys of Pages, search itself included, each once.
C6_SearchBacklinksAllKeys ==
  (ret.op \in {"Update", "UpdateSingle"} /\ ret.res = "nil") =>
    /\ SearchName \in Docs(Pages)
    /\ Range(Pages[SearchName].Backlinks) = DOMAIN Pages
    /\ Len(Pages[SearchName].Backlinks) = Cardinality(DOMAIN Pages)

\* A successful UpdateSingle on a graph in which no document links to
\* search in its text.
C6_Witness ==
  /\ ret.op = "UpdateSingle" /\ ret.res = "nil"
  /\ Cardinality(DOMAIN Pages) >= 3
  /\ \A k \in DOMAIN Pages : SearchName \notin Pages[k].Links

\* C7: once the first Update has succeeded, Pages contains the key search
\* after any sequence of Update, UpdateSingle and RenamePage calls.
C7_SearchAlwaysPresent ==
  phase = "serving" => SearchName \in DOMAIN Pages

\* C8: for every key k of Pages, Pages[k].Name equals k.
C8_KeysAreNames ==
  \A k \in DOMAIN Pages : ~Pages[k].isNil /\ Pages[k].Name = k

\* C9: a WritePage in one goroutine never overlaps an Update, UpdateSingle
\* or RenamePage running in another goroutine.
C9_WritePageExcluded ==
  \A g \in Goroutines, h \in Goroutines :
    (g # h /\ calls[g].op = "WritePage") => ~InCritical(h)

\* C10: two consecutive successful Updates of an unchanged directory give
\* the same keys and, for every document, the same Title, Links and
\* Backlinks.
SameGraph(p, q) ==
  /\ DOMAIN p = DOMAIN q
  /\ \A k \in DOMAIN p :
       /\ p[k].Title = q[k].Title
       /\ p[k].Links = q[k].Links
       /\ p[k].Backlinks = q[k].Backlinks

C10_ReloadIdempotent ==
  [][(ret.op = "Update" /\ ret.res = "nil"
        /\ ret'.op = "Update" /\ ret'.res = "nil")
       => SameGraph(Pages, Pages')]_vars

\* C11: loadPages returns an error and no page set whenever at least one
\* worker's loadPage failed, in every order of the workers and for every
\* set of failing loads; it returns a page set only when every file loaded,
\* and that set holds a document for the name of every enumerated file (it
\* is one of the sets the collecting loop can build from all the files).
C11_LoadAllOrNothing ==
  ld.pc = "done" =>
    /\ ld.res = "error" <=> ld.fail # {}
    /\ ld.res = "error" => ld.out = <<>>
    /\ ld.res = "nil" =>
         /\ \A f \in mdFiles(disk) : f.name \in Docs(ld.out)
         /\ \E win \in Winners(mdFiles(disk)) : ld.out = loadPages(disk, win)

\* loadPages returned an error although pages had been collected: a worker
\* failed after others had delivered theirs.
C11_Witness ==
  /\ ld.pc = "done" /\ ld.res = "error"
  /\ Cardinality(ld.fail) >= 2
  /\ DOMAIN ld.pages # {}

\* C12: when the rename of the backing file fails, RenamePage returns the
\* error and takes no later step: Pages is unchanged and no file is
\* written.
C12_FailedStorageRename ==
  [][(/\ ret'.op = "RenamePage"
      /\ ret'.fault.rename \/ getPagePath(ret'.name) \notin DOMAIN disk)
       => (ret'.res = "error" /\ Pages' = Pages /\ disk' = disk)]_vars

\* os.Rename failed for a page that exists and has referrers.
C12_Witness ==
  /\ ret.op = "RenamePage" /\ ret.res = "error" /\ ret.fault.rename
  /\ ret.name \in Docs(Pages)
  /\ Pages[ret.name].Backlinks # <<>>
  /\ getPagePath(ret.name) \in DOMAIN disk

\* C13: after a RenamePage(oldName, newName) that did not fail with an
\* error, for an oldName whose file existed and a valid newName,
\* Pages[newName] is the document that was stored under oldName (with its
\* text, in which its own links to oldName may have been renamed) and, when
\* the names differ, oldName is no longer a key; newName may be oldName or
\* a name that was a key already.
SameDocument(p, q, oldName, newName) ==
  /\ ~p.isNil /\ ~q.isNil
  /\ p.Raw \in {q.Raw, renameWikilinks(q.Raw, oldName, newName)}

Rewritten(r, oldName, newName) ==
  /\ r \in Docs(Pages') /\ getPagePath(r) \in DOMAIN disk'
  /\ disk'[getPagePath(r)] = Pages'[r].Raw
  /\ newName \in Range(TargetSeq(Pages'[r].Raw))
  /\ oldName \notin Range(TargetSeq(Pages'[r].Raw))

\* r is where it was, or under newName when it is the renamed page itself.
Moved(r, oldName, newName) == IF r = oldName THEN newName ELSE r

Untouched(r, to, oldName) ==
  /\ to \in Docs(Pages') /\ Pages'[to] = Pages[r]
  /\ oldName \in Range(TargetSeq(Pages'[to].Raw))
  /\ getPagePath(r) \in DOMAIN disk
       => ( /\ getPagePath(to) \in DOMAIN disk'
            /\ disk'[getPagePath(to)] = disk[getPagePath(r)] )

NoRollback(bl, oldName, newName) ==
  /\ getPagePath(newName) \in DOMAIN disk'
  /\ getPagePath(oldName) \notin DOMAIN disk'
  /\ newName \in DOMAIN Pages' /\ oldName \notin DOMAIN Pages'
  /\ \E k \in 1..Len(bl) :
       /\ \A i \in 1..(k - 1) : Rewritten(bl[i], oldName, newName)
       /\ \A i \in (k + 1)..Len(bl) :
            Untouched(bl[i], Moved(bl[i], oldName, newName), oldName)

C14_PartialRenameKept ==
  [][(/\ ret'.op = "RenamePage" /\ ret'.res = "error"
      /\ ~ret'.fault.rename /\ getPagePath(ret'.name) \in DOMAIN disk
      /\ ret'.name # ret'.new)
       => NoRollback(Lookup(Pages, ret'.name).Backlinks,
                     ret'.name, ret'.new)]_vars

\* The text that is expected for a sequence of pieces when each piece is
\* replaced as told by the operator expect.
RECURSIVE Concat(_)
Concat(texts) ==
  IF texts = <<>> THEN <<>> ELSE Head(texts) \o Concat(Tail(texts))

Expected(q, expect(_)) ==
  Concat([i \in 1..Len(q) |-> expect(Pieces[q[i]])])

\* No piece of q is an unclosed opening: the occurrences of the text are
\* its pieces.
Closed(q) == \A i \in 1..Len(q) : Pieces[q[i]].kind # "open"

\* C15: renameWikilinks(content, oldName, newName) rewrites exactly the
\* occurrences whose trimmed target is oldName, puts newName in place of
\* the target, keeps a label as written and an absent label absent, and
\* leaves every other occurrence and the text around them unchanged.
RenamedPiece(pc, oldName, newName) ==
  IF pc.kind = "link" /\ pc.target = oldName
  THEN <<"[", "[">> \o newName
         \o (IF pc.has THEN <<"|">> \o pc.label ELSE <<>>) \o <<"]", "]">>
  ELSE pc.text

RenamedTargets(t, oldName, newName) ==
  [i \in 1..Len(t) |-> IF t[i] = oldName THEN newName ELSE t[i]]

C15_RenameExactly ==
  (ev.fn = "renameWikilinks" /\ ev.pc = "done") =>
    /\ TargetSeq(ev.out)
         = RenamedTargets(TargetSeq(Flatten(ev.pieces)),
                          ev.oldName, ev.newName)
    /\ Closed(ev.pieces) =>
         ev.out = Expected(ev.pieces,
                           LAMBDA pc : RenamedPiece(pc, ev.oldName,
                                                    ev.newName))

\* A text with a labelled link to oldName, plain text and a link to
\* another page has been rewritten.
C15_Witness ==
  /\ ev.fn = "renameWikilinks" /\ ev.pc = "done"
  /\ ev.oldName = NameB /\ ev.pieces = <<2, 7, 1>>
  /\ ev.out # Flatten(ev.pieces)

\* C16: after buildBacklinks every Backlinks slice has no duplicate and is
\* ordered: the names that do not begin with a digit first, ascending, then
\* the digit-leading names, descending; the referrers 2024-01-01, apple,
\* 2023-05-05, banana are listed as apple, banana, 2024-01-01, 2023-05-05.
BacklinkOrder(bl) ==
  \A i \in 1..Len(bl), j \in 1..Len(bl) :
    i < j =>
      /\ bl[i] # bl[j]
      /\ BeginsNum(bl[i]) => BeginsNum(bl[j])
      /\ (~BeginsNum(bl[i]) /\ ~BeginsNum(bl[j])) => StrLess(bl[i], bl[j])
      /\ (BeginsNum(bl[i]) /\ BeginsNum(bl[j])) => StrLess(bl[j], bl[i])

ExampleReferrers ==
  << <<"a", "p", "p", "l", "e">>, <<"b", "a", "n", "a", "n", "a">>,
     <<"2", "0", "2", "4", "-", "0", "1", "-", "0", "1">>,
     <<"2", "0", "2", "3", "-", "0", "5", "-", "0", "5">> >>

C16_BacklinksOrdered ==
  (ev.fn = "buildBacklinks" /\ ev.pc = "done") =>
    /\ \A k \in DOMAIN ev.out : BacklinkOrder(ev.out[k].Backlinks)
    /\ Range(ev.out[TargetName].Backlinks) = ev.names
    /\ ev.names = Range(ExampleReferrers)
         => ev.out[TargetName].Backlinks = ExampleReferrers

\* buildBacklinks has run on the four referrers of the example.
C16_Witness ==
  /\ ev.fn = "buildBacklinks" /\ ev.pc = "done"
  /\ ev.names = Range(ExampleReferrers)
  /\ Len(ev.out[TargetName].Backlinks) = 4

\* C17: sortBacklinks is a total order: cmp(a,b) = -cmp(b,a), cmp(a,b) = 0
\* only when a = b, and cmp(a,b) < 0 with cmp(b,c) < 0 gives cmp(a,c) < 0.
C17_ComparatorTotalOrder ==
  (ev.fn = "sortBacklinks" /\ ev.pc = "done") =>
    /\ ev.out.ab = 0 - ev.out.ba
    /\ ev.out.ab = 0 => ev.a = ev.b
    /\ (ev.out.ab < 0 /\ ev.out.bc < 0) => ev.out.ac < 0

\* Three names have been compared that chain across the two groups: a
\* letter-leading name, then two digit-leading ones in descending order.
C17_Witness ==
  /\ ev.fn = "sortBacklinks" /\ ev.pc = "done"
  /\ ~BeginsNum(ev.a) /\ BeginsNum(ev.b) /\ BeginsNum(ev.c)
  /\ ev.out.ab < 0 /\ ev.out.bc < 0

\* C18: for a loaded document whose raw content begins with "# " and has a
\* later line break, Title is the trimmed text between the marker and the
\* first line break; in every other case Title is the document's name.
HasHeading(raw) ==
  /\ Len(raw) >= 2 /\ raw[1] = "#" /\ raw[2] = " "
  /\ \E i \in 3..Len(raw) : raw[i] = "\n"

HeadingText(raw) ==
  TrimSpace(Sub(raw, 3,
                (CHOOSE i \in 3..Len(raw) :
                   raw[i] = "\n" /\ \A j \in 3..(i - 1) : raw[j] # "\n") - 1))

C18_TitleOrName ==
  (ev.fn = "loadPage" /\ ev.pc = "done") =>
    ev.out.Title = IF HasHeading(ev.out.Raw) THEN HeadingText(ev.out.Raw)
                   ELSE ev.out.Name

\* C19: a double-bracket form whose target is empty ("[[]]", "[[|label]]",
\* or a target of white space only) adds no entry to Links and stays as it
\* is in the text given to the renderer.
C19_EmptyTargetIgnored ==
  (ev.fn = "loadPage" /\ ev.pc = "done") =>
    /\ <<>> \notin ev.out.Links
    /\ (\A i \in 1..Len(ev.pieces) :
          Pieces[ev.pieces[i]].kind \in {"empty", "plain"})
         => (ev.out.Links = {} /\ ev.out.HTML = ev.out.Raw)

\* C20: for every well-formed occurrence [[target]] or [[target|label]],
\* the trimmed target is in Links (once, Links being a set), the occurrence
\* is replaced by an inline link to the trimmed target whose label is the
\* trimmed label text, or the target when there is no |label segment, and
\* the text outside occurrences is unchanged.
NoEmptyTarget(q) == \A i \in 1..Len(q) : Pieces[q[i]].kind # "empty"

LinkTargets(q) ==
  {Pieces[q[i]].target : i \in {j \in 1..Len(q) : Pieces[q[j]].kind = "link"}}

InlinePiece(pc) ==
  IF pc.kind # "link" THEN pc.text
  ELSE <<"[">> \o (IF pc.has THEN TrimSpace(pc.label) ELSE pc.target)
         \o <<"]", "(">> \o pc.target \o <<")">>

C20_LinkExtraction ==
  (ev.fn = "loadPage" /\ ev.pc = "done"
     /\ Closed(ev.pieces) /\ NoEmptyTarget(ev.pieces)) =>
    /\ ev.out.Links = LinkTargets(ev.pieces)
    /\ ev.out.HTML = Expected(ev.pieces, InlinePiece)

\* C20 as amended: the label of the inline link is the trimmed label text,
\* or the target when there is no |label segment or the label is blank.
InlinePieceBlank(pc) ==
  IF pc.kind # "link" THEN pc.text
  ELSE <<"[">> \o (IF pc.has /\ TrimSpace(pc.label) # <<>>
                   THEN TrimSpace(pc.label) ELSE pc.target)
         \o <<"]", "(">> \o pc.target \o <<")">>

C20_LinkExtractionBlankLabel ==
  (ev.fn = "loadPage" /\ ev.pc = "done"
     /\ Closed(ev.pieces) /\ NoEmptyTarget(ev.pieces)) =>
    /\ ev.out.Links = LinkTargets(ev.pieces)
    /\ ev.out.HTML = Expected(ev.pieces, InlinePieceBlank)

\* A text with a labelled link, a link with a blank label and a link
\* without label has been processed.
C20_Witness ==
  /\ ev.fn = "loadPage" /\ ev.pc = "done"
  /\ ev.pieces = <<2, 3, 1>>
  /\ ev.out.Links = {NameA, NameB}

\* C21: a successful UpdateSingle(name) replaces only Pages[name], with
\* the document loaded from the file of that name: the keys change at most
\* by adding name, every other document keeps its Raw, Title, Links and
\* HTML, and afterwards the Backlinks of every document are the ones built
\* over the whole of Pages.
SameContent(p, q) ==
  /\ p.isNil = q.isNil
  /\ p.Name = q.Name /\ p.Raw = q.Raw /\ p.Title = q.Title
  /\ p.Links = q.Links /\ p.HTML = q.HTML

C22_FailedUpdateSingle ==
  [][(/\ ret'.op = "UpdateSingle"
      /\ \/ ret'.name \in ret'.fault.load
         \/ getPagePath(ret'.name) \notin DOMAIN disk)
       => (ret'.res = "error" /\ Pages' = Pages)]_vars

\* UpdateSingle failed for a document whose file has changed since it was
\* loaded: Pages still holds the old text.
C22_Witness ==
  /\ ret.op = "UpdateSingle" /\ ret.res = "error"
  /\ ret.name \in Docs(Pages)
  /\ getPagePath(ret.name) \in DOMAIN disk
  /\ Pages[ret.name].Raw # disk[getPagePath(ret.name)]

\* C23: loadPages always terminates: for every set of enumerated files and
\* every subset of failing loads, every worker goroutine finishes, pageCh
\* is closed only after the last worker has finished, and the collecting
\* loop ends and loadPages returns; no worker stays blocked on a send.
WorkersDone == \A f \in DOMAIN ld.w : ld.w[f] = "done"

C23_LoadTerminates ==
  /\ [](ld.closer = "closed" => WorkersDone)
  /\ <>(ld.pc = "done" /\ ld.closer = "closed" /\ WorkersDone)

\* loadPages has returned for a directory of three files of which some
\* failed to load after others had been delivered.
C23_Witness ==
  /\ ld.pc = "done" /\ ld.closer = "closed" /\ WorkersDone
  /\ Cardinality(DOMAIN ld.w) >= 3
  /\ ld.fail # {} /\ DOMAIN ld.pages # {}

\* C24: servePostEdit answers 400 to a request whose path name, or whose
\* differing submitted name, is outside ^[a-zA-Z0-9_+-]+$, and it does so
\* before it calls RenamePage, WritePage or UpdateSingle: no call is ever
\* in progress for such a request, and the step that rejects it leaves the
\* directory and Pages unchanged.
BadRequest(oldName, name) ==
  ~isValidName(oldName) \/ (name # oldName /\ ~isValidName(name))

C24_RejectedBeforeAnyCall ==
  /\ [](\A g \in Goroutines :
          ~calls[g].req.none
            => ~BadRequest(calls[g].req.oldName, calls[g].req.name))
  /\ []((ret.op = "servePostEdit" /\ BadRequest(ret.name, ret.new))
          => ret.res = "400")
  /\ [][(ncalls' # ncalls /\ ret'.op = "servePostEdit" /\ ret'.res = "400")
          => (Pages' = Pages /\ disk' = disk)]_vars

\* A request that renames b to a name outside the grammar has been
\* answered 400 while another request was between its calls.
C24_Witness ==
  /\ ret.op = "servePostEdit" /\ ret.res = "400"
  /\ ret.name = NameB /\ ret.new = BadName
  /\ \E g \in Goroutines : calls[g].op = "UpdateSingle"

\* C25: WatchDir calls Update once per burst of change events: every
\* event that is received restarts the debounce timer for its whole time;
\* Update is called only on the receipt of a firing of the timer, the timer
\* fires only when the whole debounce time has passed since the last event
\* was received, and it does not run again until the next event; every
\* change is eventually followed by the start of an Update; and the loop
\* is back at its select after an Update that failed.
Watching == wd.pc # "none"

EventRestartsTimer ==
  (Watching /\ wd'.q < wd.q) => wd'.timer = DebounceMs \div TickMs

UpdateOnlyOnExpiry ==
  (Watching /\ wd.pc # "update" /\ wd'.pc = "update")
    => (wd.C = 1 /\ wd'.C = 0)

ExpiryAfterQuietTime ==
  (Watching /\ wd.C = 0 /\ wd'.C = 1)
    => (wd'.quiet = DebounceMs \div TickMs /\ wd'.timer = 0)

TimerRunsOnlyAfterEvent ==
  (Watching /\ wd.timer = 0 /\ wd'.timer > 0) => wd'.q < wd.q

LoopContinues ==
  (Watching /\ wd.pc = "update" /\ wd'.pc # "update") => wd'.pc = "select"

C25_UpdateOncePerBurst ==
  /\ [][EventRestartsTimer /\ UpdateOnlyOnExpiry /\ ExpiryAfterQuietTime
         /\ TimerRunsOnlyAfterEvent /\ LoopContinues]_vars
  /\ ((Watching /\ wd.dirty) ~> (Watching /\ ~wd.dirty))

\* Update is called again, for a later burst, after an Update called by the
\* watcher failed.
C25_Witness ==
  /\ Watching /\ wd.pc = "update"
  /\ ret.op = "Update" /\ ret.res = "error"
  /\ wd.changes >= 2

\* C26: while RenamePage is in its propagation loop, the name it is about
\* to process, taken from the renamed document's Backlinks, is a key of
\* Pages that holds a page, so the lookup of the referencing page never
\* gives a missing entry; also when the renamed document references
\* itself.
C26_LoopLookupFound ==
  \A g \in Goroutines :
    (calls[g].op = "RenamePage" /\ calls[g].pc = "loop"
       /\ calls[g].i <= Len(calls[g].bl))
      => calls[g].bl[calls[g].i] \in Docs(Pages)

\* C27: whenever no mutating call holds the lock, every name in the
\* Backlinks of a document of Pages is a key of Pages.
C27_BacklinksAreKeys ==
  mu.writer = "none" =>
    \A k \in Docs(Pages) : Range(Pages[k].Backlinks) \subseteq DOMAIN Pages

\* C28: a Page that a page handler obtained from Pages under the read lock
\* is not written by a later store call: while the handler reads its Title,
\* HTML and Backlinks after RUnlock, no Update, UpdateSingle or RenamePage
\* has assigned to a field of that Page.
C28_HeldPageNotWritten ==
  \A g \in Goroutines : calls[g].pc = "render" => ~calls[g].written

\* C29: whenever RenamePage rewrites a referrer A, the text it writes to
\* A's file is the rename-rewrite of the content the file has at that
\* moment, so that content written by a completed WritePage(A, body) is
\* not replaced by text derived from an older version of A; under every
\* interleaving of edit requests and Update.
RewritesReferrer(g) ==
  /\ calls[g].op = "RenamePage"
  /\ calls[g].pc = "loop" /\ calls'[g].pc = "reload"

C29_RenameWritesCurrentContent ==
  [][\A g \in Goroutines :
       RewritesReferrer(g) =>
         /\ getPagePath(calls[g].bl[calls[g].i]) \in DOMAIN disk
         /\ disk'[getPagePath(calls[g].bl[calls[g].i])]
              = renameWikilinks(disk[getPagePath(calls[g].bl[calls[g].i])],
                                calls[g].name, calls[g].new)]_vars

=============================================================================
